---- MODULE Spec2Model ----
(***************************************************************************)
(* State-machine model of lib/common/socket.c (h2o): the socket core, the  *)
(* TLS adapter (handshake, decode, write, shutdown), the latency optimizer *)
(* and export/import.                                                      *)
(*                                                                         *)
(* One connection is modelled.  Every handler of socket.c is an operator   *)
(* that maps a state record s to the state after the handler has returned  *)
(* (handlers run to completion on the loop thread, section 5 of the        *)
(* specification); an action applies one handler to the current state.     *)
(* The outcome of every call into the TLS engine (SSL_accept, SSL_connect, *)
(* SSL_read, SSL_write, SSL_shutdown) and of every system call is an input *)
(* of the handler, drawn by the action from the outcomes the engine or the *)
(* kernel can produce.                                                     *)
(*                                                                         *)
(* Build modelled: H2O_USE_LIBUV undefined (line 102: the evloop backend), *)
(* TCP_INFO and TCP_NOTSENT_LOWAT defined (line 389), assertions enabled.  *)
(* A failed assertion or h2o_fatal stops the process: field "aborted".     *)
(* The backend (socket/evloop.c.h) and the inline helpers of h2o/socket.h  *)
(* are not part of the source at hand; they are modelled from the          *)
(* specification (sections 4.1, 4.5, 5 and 6).                             *)
(***************************************************************************)
EXTENDS Integers, Sequences, FiniteSets, TLC

\* ---------------------------------------------------------------- bounds
MaxRecv == 3        \* bytes (one TLS record each) the peer sends in all
MaxWrites == 2      \* application writes issued on one socket object
MaxImports == 1     \* export/import hand-offs of the connection
MaxServerProtocols == 2   \* protocols in the server's ALPN list
MaxClientBytes == 4       \* bytes in the client's ALPN list
MaxField == 1             \* largest value of a byte or field of an address

\* ------------------------------------------------------- program constants
DefaultRecordSize == 1400
LargeRecordBase == 16384
LargeCwndBytes == 65536
AesGcmOverhead == 25      \* 5 + 8 + 12
ChaChaOverhead == 21      \* 5 + 16
AsyncRecordLimit == 1024
SIZE_MAX == -1            \* stands for (size_t)-1, no cap

NULL == "null"

\* ------------------------------------------------------------- sequences
Take(q, n) == SubSeq(q, 1, n)
Drop(q, n) == SubSeq(q, n + 1, Len(q))
Min(a, b) == IF a < b THEN a ELSE b

RECURSIVE Sum(_)
Sum(q) == IF q = <<>> THEN 0 ELSE Head(q) + Sum(Tail(q))

\* What SSL_read hands back for one record of encrypted input: the engine
\* decrypts, it does not copy.
Plain(b) == b + 100

RECURSIVE PlainAll(_)
PlainAll(q) == IF q = <<>> THEN <<>> ELSE <<Plain(Head(q))>> \o PlainAll(Tail(q))

\* ------------------------------------------------------------ the objects
\* struct st_h2o_socket_ssl_t, once freed or before it is allocated.
\* (failure: how the engine's last SSL_accept / SSL_connect failed, if it
\* did: with a verify result other than X509_V_OK, or otherwise.)
NoSsl ==
    [ gen |-> 0, ctx |-> NULL, eng |-> "none", bio |-> -1, sent_shutdown |-> FALSE,
      cert |-> "none", hcb |-> FALSE, server |-> FALSE, getter |-> FALSE,
      astate |-> "COMPLETE", session_data |-> FALSE,
      encrypted |-> <<>>, out |-> <<>>, did_write_in_read |-> NULL,
      failure |-> "none" ]

\* _latency_optimization of a socket the backend has just created.
NewLatency ==
    [ mode |-> "TBD", mss |-> 0, tls_overhead |-> 0, suggested_write_size |-> SIZE_MAX ]

\* The backend's record of the write it was handed: in flight or not, the
\* bytes, and H2O_SOCKET_FLAG_IS_WRITE_ERROR.  short: these are not all the
\* bytes of the application's write (an observation, not a field).
NoWrite == [ inflight |-> FALSE, bytes |-> 0, err_flag |-> FALSE, short |-> FALSE ]

NoInfo == [ fd |-> FALSE, has_ssl |-> FALSE, input |-> <<>> ]

\* Observations of the callbacks handed to the application, per socket
\* object (w*, c*) and per TLS adapter (h*).
\*   wIssued  writes the application has handed to h2o_socket_write
\*   wOk      write callbacks invoked with a null error
\*   wFail    write callbacks invoked with an error
\*   wSupp    writes whose callback slot was dropped without a call
\*   wWrong   a write callback got a null error although not every byte
\*            was handed to the kernel, or an error although every byte was
\*   wLate    a write callback was invoked after the close callback
\*   overlap  a write was handed to the backend while one was in flight
\*   wDis     a write was issued in the latency mode DISABLED
\*   cCalls   calls of h2o_socket_close;  cCb  close callbacks invoked
\*   cFlushes flush writes the shutdown machine has issued
NewSockGhost ==
    [ wIssued |-> 0, wOk |-> 0, wFail |-> 0, wSupp |-> 0, wWrong |-> FALSE,
      wLate |-> FALSE, overlap |-> FALSE, wDis |-> FALSE,
      cCalls |-> 0, cCb |-> 0, cFlushes |-> 0 ]

\* The last call of export, import or prepare: what it returned and, for
\* export and import, what the socket held when export was entered.
NoSnap == [ input |-> <<>>, ssl |-> NoSsl, has_ssl |-> FALSE, writing |-> FALSE ]

\* (fed: the number of SSL_write calls a write made.)
\* What proceed_handshake holds when it calls SSL_accept: the resumption
\* state, and the copy of the encrypted input if one was taken.
\* (get: what the session-get callback did when the engine consulted it
\* inside that call: the state it found, the session and the copy flag it
\* returned, and whether it dispatched the external lookup.)
NoGet == [ called |-> FALSE, at |-> "", session |-> FALSE, copy |-> FALSE,
           dispatched |-> FALSE ]

NoAccept == [ astate |-> "", taken |-> FALSE, first_input |-> <<>>, get |-> NoGet ]

NoOp == [ name |-> "other", ret |-> 0, err |-> NULL, pre |-> NoSnap, acc |-> NoAccept, fed |-> 0 ]

\*   hCalls   calls of h2o_socket_ssl_handshake
\*   hCb      handshake callbacks invoked;  hErr  the error of the last one
NewHsGhost == [ hCalls |-> 0, hCb |-> 0, hErr |-> NULL, gaveUp |-> FALSE ]

VARIABLES
    sock,     \* h2o_socket_t: the socket object the connection lives in
    ssl,      \* struct st_h2o_socket_ssl_t: the TLS adapter (heap object)
    wr,       \* backend: the write in flight
    info,     \* h2o_socket_export_t
    net,      \* the peer and the external resumption store
    g,        \* observations: callbacks invoked, results returned
    aborted,  \* "" or the assertion / h2o_fatal that stopped the process
    call      \* a call of a function that touches no socket: arguments, result

vars == <<sock, ssl, wr, info, net, g, aborted, call>>

Cur == [ sock |-> sock, ssl |-> ssl, wr |-> wr, info |-> info, net |-> net,
         g |-> g, aborted |-> aborted ]

CommitSock(t) ==
    /\ sock' = t.sock
    /\ ssl' = t.ssl
    /\ wr' = t.wr
    /\ info' = t.info
    /\ net' = t.net
    /\ g' = t.g
    /\ aborted' = t.aborted

Commit(t) == CommitSock(t) /\ call' = call

Abort(s, why) == [s EXCEPT !.aborted = why]

NewSock(id, closeCb) ==
    [ id |-> id, disposed |-> FALSE, input |-> <<>>, cb_read |-> NULL, cb_write |-> NULL,
      on_close |-> closeCb, has_ssl |-> FALSE, lat |-> NewLatency ]

NoCall == [ fn |-> "none" ]

\* The connection right after the backend has created its socket.
SockInit ==
    /\ sock = NewSock(0, TRUE)
    /\ ssl = NoSsl
    /\ wr = NoWrite
    /\ info = NoInfo
    /\ net = [ sent |-> 0, async_pending |-> FALSE, get_async |-> 0 ]
    /\ g = [ s |-> NewSockGhost, h |-> NewHsGhost,
             op |-> NoOp ]
    /\ aborted = ""

Init == SockInit /\ call = NoCall

\* ------------------------------------------------------------ the backend
\* do_write: the backend takes the buffers and the callback; the completion
\* is reported later, from the loop, through on_write_complete.  The evloop
\* backend asserts that no write is in flight.
do_write(s, nbytes, cb) ==
    IF s.sock.cb_write # NULL
    THEN Abort([s EXCEPT !.g.s.overlap = TRUE], "do_write: write in flight")
    ELSE [s EXCEPT !.sock.cb_write = cb,
                   !.wr = [ inflight |-> TRUE, bytes |-> nbytes, err_flag |-> FALSE,
                            short |-> FALSE ]]

\* do_dispose_socket: the descriptor is closed and the object freed (its
\* fields are gone); nothing is delivered for it afterwards, a write in
\* flight is dropped.
do_dispose_socket(s) ==
    [s EXCEPT !.sock.disposed = TRUE,
              !.sock.cb_read = NULL,
              !.sock.cb_write = NULL,
              !.sock.lat = NewLatency,
              !.g.s.wSupp = @ + (IF s.sock.cb_write = "user" THEN 1 ELSE 0),
              !.wr = NoWrite]

\* ------------------------------------------------- socket core, lines 251-327
h2o_socket_is_writing(s) == s.sock.cb_write # NULL

\* What the socket holds on entry to a call.
Snapshot(s) ==
    [ input |-> s.sock.input, ssl |-> s.ssl, has_ssl |-> s.sock.has_ssl,
      writing |-> h2o_socket_is_writing(s) ]

\* write_bio that stages the record whether or not the engine is inside a
\* TLS read (without lines 157-160).
write_bio_unguarded(s, rec) ==
    [ s |-> [s EXCEPT !.ssl.out = Append(@, rec)], ret |-> rec.len ]

\* write_bio, lines 151-172: the engine writes the record rec.  While the
\* did_write_in_read marker is set, the integer it points at is set to 1
\* and the write fails; else the record is appended to the outbound
\* staging.  Returns the state and the value returned to the engine.
write_bio(s, rec) ==
    IF s.ssl.did_write_in_read # NULL
    THEN [ s |-> [s EXCEPT !.ssl.did_write_in_read = "1"], ret |-> -1 ]
    ELSE IF rec.len = 0 THEN [ s |-> s, ret |-> 0 ]
    ELSE [ s |-> [s EXCEPT !.ssl.out = Append(@, rec)], ret |-> rec.len ]

h2o_socket_read_start(s, cb) == [s EXCEPT !.sock.cb_read = cb]

\* h2o_socket_read_stop that leaves the read callback registered.
h2o_socket_read_stop_keeps(s) == s

h2o_socket_read_stop(s) == [s EXCEPT !.sock.cb_read = NULL]

StagedBytes(out) == Sum([i \in 1..Len(out) |-> out[i].len])

flush_pending_ssl(s, cb) == do_write(s, StagedBytes(s.ssl.out), cb)

\* clear_output_buffer that leaves the staged records in place.
clear_output_buffer_keeps(s) == s

clear_output_buffer(s) == [s EXCEPT !.ssl.out = <<>>]

\* destroy_ssl frees the engine, both buffers and the adapter itself.
destroy_ssl(s) == [s EXCEPT !.ssl = NoSsl]

\* dispose_socket without the call of the close callback (lines 290-291).
dispose_socket_silent(s, err) ==
    do_dispose_socket([s EXCEPT !.ssl = NoSsl, !.sock.has_ssl = FALSE, !.sock.input = <<>>])

dispose_socket(s, err) ==
    LET s1 == IF s.sock.has_ssl
              THEN [destroy_ssl(s) EXCEPT !.sock.has_ssl = FALSE]
              ELSE s
        s2 == [s1 EXCEPT !.sock.input = <<>>]
        close_cb == s2.sock.on_close
        s3 == do_dispose_socket(s2)
    IN  IF close_cb THEN [s3 EXCEPT !.g.s.cCb = @ + 1] ELSE s3

\* What SSL_shutdown can hand back: its return value and whether it staged
\* a close_notify record through write_bio.  The engine returns 1 (both
\* close_notify seen), 0 (not yet finished) or -1.
ShutdownRets == {-1, 0, 1}

SdOutcomes(s) ==
    { o \in [ ret : ShutdownRets, nout : {0, 1}, want_read : BOOLEAN ] :
        /\ (o.nout = 1) => ~s.ssl.sent_shutdown
        /\ o.want_read => o.ret < 0 }

SSL_shutdown(s, sd) ==
    IF sd.nout = 1
    THEN [write_bio(s, [kind |-> "close_notify", len |-> 1]).s
              EXCEPT !.ssl.sent_shutdown = TRUE]
    ELSE s

\* shutdown_ssl that leaves a write in flight alone instead of dropping
\* its callback (lines 304-309).
shutdown_ssl_waits(s, err, sd) ==
    IF err = NULL /\ s.sock.cb_write # NULL THEN s ELSE dispose_socket(s, err)

shutdown_ssl(s, err, sd) ==
    IF err # NULL THEN dispose_socket(s, err)
    ELSE IF s.sock.cb_write # NULL
    THEN dispose_socket([s EXCEPT !.sock.cb_write = NULL,
                                  !.g.s.wSupp = @ + (IF s.sock.cb_write = "user" THEN 1 ELSE 0)],
                        err)
    ELSE LET s1 == SSL_shutdown(s, sd)
             ret == sd.ret
         IN  IF ret = -1 THEN dispose_socket(s1, err)
             ELSE IF s1.ssl.out # <<>>
             THEN LET s2 == flush_pending_ssl(h2o_socket_read_stop(s1),
                                IF ret = 1 THEN "dispose_socket" ELSE "shutdown_ssl")
                  IN  [s2 EXCEPT !.g.s.cFlushes = @ + 1]
             ELSE IF ret = 2 /\ sd.want_read
             THEN h2o_socket_read_start(s1, "shutdown_ssl")
             ELSE dispose_socket(s1, err)

h2o_socket_close(s, sd) ==
    LET s1 == [s EXCEPT !.g.s.cCalls = @ + 1]
    IN  IF ~s1.sock.has_ssl THEN dispose_socket(s1, NULL) ELSE shutdown_ssl(s1, NULL, sd)

\* --------------------------------------------------- decode, lines 218-249
\* The outcome of the SSL_read calls of one decode_ssl_input: k records are
\* decrypted, then the loop ends because
\*   "ok"     the input is used up (or SSL_read wants more: -1, want-read),
\*   "zero"   SSL_read returned 0 on the next record,
\*   "decode" SSL_read failed on the next record,
\*   "reneg"  the engine wrote through write_bio inside SSL_read,
\*   "oom"    h2o_buffer_reserve failed before the next SSL_read.
DecEnds == {"ok", "zero", "decode", "reneg", "oom"}

DecOk == [ k |-> 0, end |-> "ok" ]

\* The outcomes of a decode that finds the bytes enc to read.
DecOutcomes(enc) ==
    {DecOk} \cup [ k : 0..(Len(enc) - 1), end : DecEnds \ {"ok"} ]

DecodeError(end) ==
    CASE end = "decode" -> "SSL decode error"
      [] end = "reneg" -> "ssl renegotiation not supported"
      [] end = "oom" -> "out of memory"
      [] OTHER -> NULL

\* Returns the state after the call and the error string returned.  Around
\* every SSL_read the marker points at a local integer (lines 229-234); in
\* the outcome "reneg" the engine calls write_bio inside that SSL_read, and
\* the decode returns the renegotiation error when the integer was set.
decode_ssl_input(s, dec) ==
    IF ~s.sock.has_ssl \/ s.ssl.hcb
    THEN [ s |-> Abort(s, "decode_ssl_input: assert"), err |-> NULL ]
    ELSE LET enc == s.ssl.encrypted
             whole == dec.end = "ok" \/ dec.k >= Len(enc)
             k == IF whole THEN Len(enc) ELSE dec.k
             used == IF whole THEN Len(enc) ELSE IF dec.end = "oom" THEN k ELSE k + 1
             fatal == ~whole /\ dec.end \in {"decode", "reneg"}
             s1 == [s EXCEPT !.sock.input = @ \o PlainAll(Take(enc, k)),
                             !.ssl.encrypted = Drop(enc, used),
                             !.ssl.eng = IF fatal THEN "dead" ELSE @]
         IN  IF ~whole /\ dec.end = "reneg"
             THEN LET s2 == [s1 EXCEPT !.ssl.did_write_in_read = "0"]
                      s3 == write_bio(s2, [kind |-> "handshake", len |-> 1]).s
                      did == s3.ssl.did_write_in_read = "1"
                      err == IF did THEN DecodeError("reneg") ELSE DecodeError("decode")
                  IN  [ s |-> [s3 EXCEPT !.ssl.did_write_in_read = NULL,
                                         !.g.op = [ name |-> "decode", ret |-> 1,
                                                    err |-> err, pre |-> Snapshot(s), acc |-> NoAccept, fed |-> 0 ]],
                        err |-> err ]
             ELSE [ s |-> s1, err |-> IF whole THEN NULL ELSE DecodeError(dec.end) ]

\* ------------------------------------------------ handshake, lines 689-843
\* create_ssl that keeps the engine it finds.
create_ssl_reuses(s, ssl_ctx) == s

\* SSL_new on the context, then setup_bio: gen counts the engines made.
create_ssl(s, ssl_ctx) ==
    [s EXCEPT !.ssl.gen = @ + 1, !.ssl.ctx = ssl_ctx, !.ssl.eng = "init",
              !.ssl.bio = s.sock.id, !.ssl.sent_shutdown = FALSE,
              !.ssl.failure = "none"]

\* on_handshake_complete without line 741: the handshake callback stays in
\* its slot.
on_handshake_complete_keeps_cb(s, err, dec) ==
    [s EXCEPT !.sock.cb_write = NULL, !.g.h.hCb = @ + 1, !.g.h.hErr = err]

on_handshake_complete(s, err, dec) ==
    LET s1 == [s EXCEPT !.sock.cb_write = NULL, !.ssl.hcb = FALSE]
        s2 == decode_ssl_input(s1, dec).s
    IN  [s2 EXCEPT !.g.h.hCb = @ + 1, !.g.h.hErr = err]

\* The callback dispatching the lookup in state COMPLETE as well.
DispatchesLookup_any(state) == state \in {"RECORD", "COMPLETE"}

\* Line 700: the one state in which the callback dispatches the lookup.
DispatchesLookup(state) == state = "RECORD"

\* Records in the operation ghost what the session-get callback returned.
NoteGet(s, session, copy, dispatched) ==
    [s EXCEPT !.g.op.name = IF @ = "proceed" THEN @ ELSE "session_get",
              !.g.op.acc.get = [ called |-> TRUE, at |-> s.ssl.astate,
                                 session |-> session, copy |-> copy,
                                 dispatched |-> dispatched ]]

\* The session-get callback the engine consults from inside SSL_accept.
\* Returns the state and whether a session was handed to the engine.
on_async_resumption_get(s) ==
    CASE DispatchesLookup(s.ssl.astate) ->
           [ s |-> [NoteGet(s, FALSE, FALSE, TRUE)
                       EXCEPT !.ssl.astate = "REQUEST_SENT",
                              !.net.async_pending = TRUE,
                              !.net.get_async = @ + 1],
             session |-> FALSE ]
      [] s.ssl.astate = "COMPLETE" ->
           [ s |-> NoteGet(s, s.ssl.session_data, TRUE, FALSE),
             session |-> s.ssl.session_data ]
      [] OTHER ->
           [ s |-> Abort(s, "on_async_resumption_get: FIXME"), session |-> FALSE ]

\* What one SSL_accept / SSL_connect call can do: read the encrypted input
\* through read_bio (all of it, or all but `leave` bytes when the handshake
\* finishes with application data behind it), stage `nout` records through
\* write_bio, consult the session-get callback once a ClientHello was read,
\* and return ret with SSL_get_error = want-read or not.  The engine
\* reports want-read only after read_bio found the encrypted input empty
\* (lines 137-140), so a want-read return has consumed everything: the Redo
\* of line 835 is never taken.
HsOutcomes(is_server, getter, recording) ==
    { o \in [ ret : {-1, 0, 1}, want_read : BOOLEAN, leave : {0, 1},
              nout : {0, 1}, getcb : BOOLEAN, verify_ok : BOOLEAN ] :
        /\ o.want_read => o.ret = -1
        /\ (o.leave = 1) => o.ret = 1
        /\ o.getcb => (is_server /\ getter)
        /\ (o.getcb /\ recording) => o.ret = -1
        /\ ~o.verify_ok => (o.ret # 1 /\ ~o.want_read) }

SSL_do_handshake(s, hs) ==
    LET consume == Len(s.ssl.encrypted) - Min(hs.leave, Len(s.ssl.encrypted))
        s0 == IF hs.nout = 1 THEN write_bio(s, [kind |-> "handshake", len |-> 1]).s
              ELSE s
        s1 == [s0 EXCEPT !.ssl.encrypted = Drop(@, consume),
                        !.ssl.eng = IF hs.ret = 1 THEN "open"
                                    ELSE IF hs.want_read THEN "init" ELSE "dead",
                        !.ssl.failure = IF hs.ret = 1 \/ hs.want_read THEN "none"
                                        ELSE IF hs.verify_ok THEN "handshake"
                                        ELSE "verify"]
    IN  IF hs.getcb /\ consume >= 1 THEN on_async_resumption_get(s1).s ELSE s1

\* validate_hostname on the peer certificate, lines 813-831.
HostnameError(cert) ==
    CASE cert = "none" -> "no certificate"
      [] cert = "match" -> NULL
      [] cert = "mismatch" -> "certificate name mismatch"
      [] OTHER -> "invalid certificate"

\* The test of line 758 with < in place of <=.
RetainsFirstInput_below(size) == size < AsyncRecordLimit

\* Line 758: an encrypted input of this size is copied for a replay.
RetainsFirstInput(size) == size <= AsyncRecordLimit

\* Lines 799-804 reporting the generic error whatever the verify result.
FailureError_generic(verify_ok) == "ssl handshake failure"

\* Lines 799-804: the error of a failed handshake.
FailureError(verify_ok) ==
    IF ~verify_ok THEN "certificate verify failed" ELSE "ssl handshake failure"

proceed_handshake(s, err0, hs, dec) ==
    LET s0 == [s EXCEPT !.sock.cb_write = NULL]
        Complete(t, err) == on_handshake_complete(h2o_socket_read_stop(t), err, dec)
    IN  IF err0 # NULL THEN Complete(s0, err0)
        ELSE
        LET recording == s0.ssl.astate = "RECORD"
            keep == recording /\ RetainsFirstInput(Len(s0.ssl.encrypted))
            first_input == IF keep THEN s0.ssl.encrypted ELSE <<>>
            s1 == IF recording /\ ~keep
                  THEN [s0 EXCEPT !.ssl.astate = "COMPLETE", !.g.h.gaveUp = TRUE]
                  ELSE s0
            s1a == IF recording
                   THEN [s1 EXCEPT !.g.op = [ name |-> "proceed", ret |-> hs.ret,
                                              err |-> NULL, pre |-> Snapshot(s0),
                                              acc |-> [ astate |-> s1.ssl.astate,
                                                        taken |-> keep,
                                                        first_input |-> first_input,
                                                        get |-> NoGet ],
                                              fed |-> 0 ]]
                   ELSE [s1 EXCEPT !.g.op = NoOp]
            s2 == SSL_do_handshake(s1a, hs)
            ret == hs.ret
        IN  IF s2.aborted # "" THEN s2
            ELSE IF s2.ssl.astate = "REQUEST_SENT"
            THEN IF ~(ret < 0) THEN Abort(s2, "proceed_handshake: assert(ret < 0)")
                 ELSE h2o_socket_read_stop(
                          [clear_output_buffer(create_ssl(s2, s2.ssl.ctx))
                              EXCEPT !.ssl.encrypted = first_input])
            ELSE
            LET s3 == IF s2.ssl.astate = "RECORD"
                      THEN [s2 EXCEPT !.ssl.astate = "COMPLETE"] ELSE s2
            IN  IF ret = 0 \/ (ret < 0 /\ ~hs.want_read)
                THEN Complete(s3, FailureError(hs.verify_ok))
                ELSE IF s3.ssl.out # <<>>
                THEN LET s4 == flush_pending_ssl(h2o_socket_read_stop(s3),
                                   IF ret = 1 THEN "on_handshake_complete"
                                   ELSE "proceed_handshake")
                     IN  s4
                ELSE IF ret = 1
                THEN IF ~s3.ssl.server
                     THEN Complete(s3, HostnameError(s3.ssl.cert))
                     ELSE Complete(s3, NULL)
                ELSE h2o_socket_read_start(s3, "proceed_handshake")

\* server_name = NULL: server side.  On the client side the server name
\* shares its storage with the async-resumption state (the union of lines
\* 57-72): the state then reads as neither RECORD nor REQUEST_SENT.
h2o_socket_ssl_handshake(s, is_server, getter, cert, hs, dec) ==
    LET s1 == [s EXCEPT !.sock.has_ssl = TRUE,
                        !.ssl = [NoSsl EXCEPT !.encrypted = s.sock.input,
                                              !.server = is_server,
                                              !.cert = cert],
                        !.sock.input = <<>>,
                        !.g.h.hCalls = @ + 1]
        ssl_ctx == IF ~is_server THEN "client"
                   ELSE IF getter THEN "server with session-get callback"
                   ELSE "server"
        s2 == [create_ssl(s1, ssl_ctx) EXCEPT !.ssl.hcb = TRUE]
    IN  IF is_server
        THEN LET s3 == IF getter
                       THEN [s2 EXCEPT !.ssl.astate = "RECORD", !.ssl.getter = TRUE]
                       ELSE s2
             IN  IF s3.ssl.encrypted # <<>>
                 THEN proceed_handshake(s3, NULL, hs, dec)
                 ELSE h2o_socket_read_start(s3, "proceed_handshake")
        ELSE proceed_handshake([s2 EXCEPT !.ssl.astate = "ALIASED"], NULL, hs, dec)

\* session_data.len != 0 is has_data; d2i_ok tells whether d2i_SSL_SESSION
\* could parse it (it returns NULL if not).  The handshake callback is the
\* last statement of on_handshake_complete, itself the last of
\* proceed_handshake, so what the callback does to the socket follows the
\* return of proceed: with `closes` it calls h2o_socket_close, whose
\* SSL_shutdown meets the outcome sd.  Line 888 then reads sock->ssl.
h2o_socket_ssl_resume_server_handshake(s, has_data, d2i_ok, hs, dec, closes, sd) ==
    LET s1 == IF has_data THEN [s EXCEPT !.ssl.session_data = d2i_ok] ELSE s
        s2 == [s1 EXCEPT !.ssl.astate = "COMPLETE", !.net.async_pending = FALSE]
        s3 == proceed_handshake(s2, NULL, hs, dec)
        called == s3.g.h.hCb > s2.g.h.hCb
        s4 == IF closes /\ called /\ s3.aborted = "" THEN h2o_socket_close(s3, sd) ELSE s3
    IN  IF s4.aborted # "" THEN s4
        ELSE IF ~s4.sock.has_ssl
        THEN Abort(s4, "h2o_socket_ssl_resume_server_handshake: sock->ssl is NULL")
        ELSE IF s4.ssl.session_data THEN [s4 EXCEPT !.ssl.session_data = FALSE] ELSE s4

\* ------------------------------------------- latency optimizer, lines 390-473
\* What getsockopt(TCP_INFO) and setsockopt(TCP_NOTSENT_LOWAT) answer.
TcpInfos ==
    { [ fetch_ok |-> FALSE, rtt_ok |-> TRUE, lowat_ok |-> TRUE, mss |-> 1460, cwnd |-> 10, unacked |-> 2 ],
      [ fetch_ok |-> TRUE, rtt_ok |-> FALSE, lowat_ok |-> TRUE, mss |-> 1460, cwnd |-> 10, unacked |-> 2 ],
      [ fetch_ok |-> TRUE, rtt_ok |-> TRUE, lowat_ok |-> FALSE, mss |-> 1460, cwnd |-> 10, unacked |-> 2 ],
      [ fetch_ok |-> TRUE, rtt_ok |-> TRUE, lowat_ok |-> TRUE, mss |-> 1460, cwnd |-> 10, unacked |-> 2 ],
      [ fetch_ok |-> TRUE, rtt_ok |-> TRUE, lowat_ok |-> TRUE, mss |-> 1460, cwnd |-> 45, unacked |-> 0 ] }

Ciphers == {"aes-gcm", "chacha20-poly1305", "other"}

\* Unsigned 32-bit multiplication: tcpi_snd_cwnd is a 32-bit unsigned field
\* of struct tcp_info and the saved MSS is no wider, so the product of line
\* 459 is taken modulo 2^32.  The product is given by its two 16-bit
\* halves, computed from the halves of b (a is at most 2^15).
Half == 65536

MulU32(a, b) ==
    LET low == a * (b % Half)
    IN  [ hi |-> ((low \div Half) + a * (b \div Half)) % Half, lo |-> low % Half ]

\* The decision of lines 453-468 on the saved MSS and the fetched TCP_INFO.
\* Returns the latency state and the value returned.
LatencyDecision(lat, tcpi) ==
    IF MulU32(lat.mss, tcpi.cwnd).hi >= LargeCwndBytes \div Half
    THEN [ lat |-> [lat EXCEPT !.mode = "USE_LARGE_TLS_RECORDS"], ret |-> SIZE_MAX ]
    ELSE LET packets_sendable == IF tcpi.cwnd > tcpi.unacked
                                 THEN tcpi.cwnd - tcpi.unacked ELSE 0
             size == (packets_sendable + 1) * (lat.mss - lat.tls_overhead)
         IN  [ lat |-> [lat EXCEPT !.mode = "USE_TINY_TLS_RECORDS",
                                   !.suggested_write_size = size],
               ret |-> size ]

Disable(lat) == [ lat |-> [lat EXCEPT !.mode = "DISABLED"], ret |-> SIZE_MAX ]

\* The TBD case, lines 403-440.  On a TLS socket every case of the cipher
\* switch falls through to "default: goto Disable" (no break after lines
\* 421 and 426).
CipherSwitch(cipher) ==
    LET o1 == IF cipher = "aes-gcm" THEN AesGcmOverhead ELSE 0
        o2 == IF cipher \in {"aes-gcm", "chacha20-poly1305"} THEN ChaChaOverhead ELSE o1
    IN  [ tls_overhead |-> o2, disable |-> TRUE ]

PrepareTbd(lat, has_ssl, cipher, tcpi) ==
    LET c == IF has_ssl THEN CipherSwitch(cipher)
             ELSE [ tls_overhead |-> 0, disable |-> FALSE ]
    IN  IF ~tcpi.fetch_ok THEN Disable(lat)
        ELSE IF ~tcpi.rtt_ok THEN Disable(lat)
        ELSE IF c.disable THEN Disable(lat)
        ELSE IF ~tcpi.lowat_ok THEN Disable(lat)
        ELSE LatencyDecision([lat EXCEPT !.tls_overhead = c.tls_overhead,
                                         !.mss = tcpi.mss], tcpi)

\* Lines 444-445 taking the exit of the TBD case: goto Disable.
UpdateFailed_disables(lat) == Disable(lat)

\* Lines 444-445: TCP_INFO cannot be fetched again.
UpdateFailed(lat) == [ lat |-> lat, ret |-> SIZE_MAX ]

h2o_socket_do_prepare_for_latency_optimized_write(s, cipher, tcpi) ==
    LET lat == s.sock.lat
        r == CASE lat.mode = "TBD" -> PrepareTbd(lat, s.sock.has_ssl, cipher, tcpi)
               [] lat.mode = "NEEDS_UPDATE" ->
                    IF ~tcpi.fetch_ok THEN UpdateFailed(lat)
                    ELSE LatencyDecision(lat, tcpi)
               [] OTHER -> [ lat |-> lat, ret |-> 0 ]
    IN  IF lat.mode \notin {"TBD", "NEEDS_UPDATE"}
        THEN Abort(s, "h2o_fatal: unexpected mode")
        ELSE [s EXCEPT !.sock.lat = r.lat,
                       !.g.op = [ name |-> "prepare", ret |-> r.ret, err |-> NULL, pre |-> @.pre, acc |-> NoAccept, fed |-> 0 ]]

\* The inline entry point of h2o/socket.h: it calls the function above in
\* the modes TBD and NEEDS_UPDATE and returns the saved suggestion in the
\* others.
h2o_socket_prepare_for_latency_optimized_write(s, cipher, tcpi) ==
    IF s.sock.lat.mode \in {"TBD", "NEEDS_UPDATE"}
    THEN h2o_socket_do_prepare_for_latency_optimized_write(s, cipher, tcpi)
    ELSE [s EXCEPT !.g.op = [ name |-> "prepare", ret |-> s.sock.lat.suggested_write_size,
                              err |-> NULL, pre |-> @.pre, acc |-> NoAccept, fed |-> 0 ]]

\* ------------------------------------------------------ write, lines 485-560
\* The mode switch of lines 508-521 with a default case that asks for an
\* update.
RecordSizeAndMode_resets(lat) == [ size |-> DefaultRecordSize, mode |-> "NEEDS_UPDATE" ]

\* The record size chosen from the latency mode and the mode afterwards,
\* lines 508-521.
RecordSizeAndMode(lat) ==
    CASE lat.mode \in {"USE_TINY_TLS_RECORDS", "NEEDS_UPDATE"} ->
           [ size |-> lat.mss, mode |-> "NEEDS_UPDATE" ]
      [] lat.mode = "USE_LARGE_TLS_RECORDS" ->
           [ size |-> LargeRecordBase - lat.tls_overhead, mode |-> "NEEDS_UPDATE" ]
      [] OTHER ->
           [ size |-> DefaultRecordSize, mode |-> lat.mode ]

\* The inner loop without the clamp of lines 526-527: the whole buffer goes
\* to one SSL_write.
SliceSizes_unclamped(len, rs) == IF len = 0 THEN <<>> ELSE <<len>>

\* The sizes handed to SSL_write for one buffer of len bytes, lines 523-544.
RECURSIVE SliceSizes(_, _)
SliceSizes(len, rs) ==
    IF len = 0 THEN <<>>
    ELSE <<Min(len, rs)>> \o SliceSizes(len - Min(len, rs), rs)

RECURSIVE AllSlices(_, _)
AllSlices(bufs, rs) ==
    IF bufs = <<>> THEN <<>>
    ELSE SliceSizes(Head(bufs), rs) \o AllSlices(Tail(bufs), rs)

\* Line 539: the backend is told to report the write as failed.
mark_write_error_skipped(s) == s

mark_write_error(s) == [s EXCEPT !.wr.err_flag = TRUE]

\* The buffers an application write carries (lengths in bytes).
WriteBufs == { <<>>, <<1401>> }

\* fail_at = 0: every SSL_write returns the size asked for; fail_at = i: the
\* i-th SSL_write of the call returns less.  An engine that is not in the
\* established state fails the first one.
h2o_socket_write(s, bufs, fail_at) ==
    LET s0 == [s EXCEPT !.g.s.wIssued = @ + 1,
                        !.g.s.wDis = @ \/ (s.sock.lat.mode = "DISABLED")]
    IN  IF ~s.sock.has_ssl THEN do_write(s0, Sum(bufs), "user")
        ELSE IF s.ssl.out # <<>>
        THEN Abort(s, "h2o_socket_write: assert(output.bufs.size == 0)")
        ELSE LET rm == RecordSizeAndMode(s.sock.lat)
                 slices == AllSlices(bufs, rm.size)
                 bad == IF s.ssl.eng # "open" THEN Min(1, Len(slices))
                        ELSE IF fail_at <= Len(slices) THEN fail_at ELSE 0
                 s1 == [s0 EXCEPT !.sock.lat.mode = rm.mode,
                                  !.g.op = [ name |-> "write", ret |-> rm.size, err |-> NULL,
                                             pre |-> NoSnap, acc |-> NoAccept,
                                             fed |-> IF bad # 0 THEN bad ELSE Len(slices) ]]
             IN  IF bad # 0
                 THEN LET s2 == [s1 EXCEPT !.ssl.out =
                                     [i \in 1..(bad - 1) |-> [kind |-> "app", len |-> slices[i]]]]
                          s3 == flush_pending_ssl(clear_output_buffer(s2), "user")
                      IN  [mark_write_error(s3) EXCEPT !.wr.short = TRUE]
                 ELSE flush_pending_ssl(
                          [s1 EXCEPT !.ssl.out =
                              [i \in 1..Len(slices) |-> [kind |-> "app", len |-> slices[i]]]],
                          "user")

\* The application's write callback; all: every byte of the write was
\* handed to the kernel.
UserWriteCb(s, err, all) ==
    [s EXCEPT !.g.s.wOk = @ + (IF err = NULL THEN 1 ELSE 0),
              !.g.s.wFail = @ + (IF err = NULL THEN 0 ELSE 1),
              !.g.s.wWrong = @ \/ ((err = NULL) # all),
              !.g.s.wLate = @ \/ (s.g.s.cCb > 0)]

\* on_write_complete without line 558: the callback stays in its slot.
on_write_complete_keeps_slot(s, err, all, x) ==
    IF s.sock.cb_write = "user" THEN UserWriteCb(s, err, all)
    ELSE [s EXCEPT !.sock.cb_write = NULL]

\* x: the engine outcomes the continuation may need; all: the backend
\* handed every byte of the application's write to the kernel.
on_write_complete(s, err, all, x) ==
    LET s1 == IF s.sock.has_ssl THEN clear_output_buffer(s) ELSE s
        cb == s1.sock.cb_write
        s2 == [s1 EXCEPT !.sock.cb_write = NULL]
    IN  CASE cb = "user" -> UserWriteCb(s2, err, all)
          [] cb = "proceed_handshake" -> proceed_handshake(s2, err, x.hs, x.dec)
          [] cb = "on_handshake_complete" -> on_handshake_complete(s2, err, x.dec)
          [] cb = "shutdown_ssl" -> shutdown_ssl(s2, err, x.sd)
          [] cb = "dispose_socket" -> dispose_socket(s2, err)
          [] OTHER -> Abort(s2, "on_write_complete: null callback")

\* ---------------------------------------------- export / import, lines 341-378
\* Lines 350-358: the adapter and the input buffer move into info, the
\* socket gets a fresh input buffer and is closed.
\* What SSL_shutdown does when it is called on an engine that has not sent
\* its close_notify: it stages the record and returns 0.
FirstShutdown == [ ret |-> 0, nout |-> 1, want_read |-> FALSE ]

\* The transfer with h2o_socket_close called before the adapter and the
\* input are detached (line 358 ahead of lines 350-356).
export_transfer_closes_first(s) ==
    LET s1 == h2o_socket_close(s, FirstShutdown)
    IN  [s1 EXCEPT !.info.fd = TRUE,
                   !.info.has_ssl = s.sock.has_ssl,
                   !.sock.has_ssl = FALSE,
                   !.info.input = s.sock.input,
                   !.sock.input = <<>>]

export_transfer(s) ==
    LET s1 == [s EXCEPT !.info.fd = TRUE,
                        !.info.has_ssl = s.sock.has_ssl,
                        !.sock.has_ssl = FALSE,
                        !.info.input = s.sock.input,
                        !.sock.input = <<>>]
    IN  h2o_socket_close(s1, FirstShutdown)

\* h2o_socket_export without the assertion of line 345 and without the
\* early return of lines 347-348.
h2o_socket_export_unchecked(s, export_ok) ==
    [export_transfer(s) EXCEPT !.g.op = [ name |-> "export",
                                          ret |-> IF export_ok THEN 0 ELSE -1,
                                          err |-> NULL, pre |-> Snapshot(s), acc |-> NoAccept, fed |-> 0 ]]

\* export_ok: whether the backend's do_export could detach the descriptor.
h2o_socket_export(s, export_ok) ==
    LET snap == Snapshot(s)
    IN  IF h2o_socket_is_writing(s)
        THEN Abort([s EXCEPT !.g.op = [ name |-> "export", ret |-> 0, err |-> NULL, pre |-> snap, acc |-> NoAccept, fed |-> 0 ]],
                   "h2o_socket_export: assert(!h2o_socket_is_writing(sock))")
        ELSE IF ~export_ok
        THEN [s EXCEPT !.g.op = [ name |-> "export", ret |-> -1, err |-> NULL, pre |-> snap, acc |-> NoAccept, fed |-> 0 ]]
        ELSE [export_transfer(s) EXCEPT !.g.op = [ name |-> "export", ret |-> 0, err |-> NULL, pre |-> snap, acc |-> NoAccept, fed |-> 0 ]]

\* setup_bio that leaves the engine's byte-IO bound to the socket object it
\* was created for.
setup_bio_stale(s) == s

setup_bio(s) == [s EXCEPT !.ssl.bio = s.sock.id]

\* do_import: the backend creates a socket object for the descriptor.
do_import(s) == [s EXCEPT !.sock = NewSock(s.sock.id + 1, FALSE), !.g.s = NewSockGhost]

h2o_socket_import(s) ==
    IF ~s.info.fd THEN Abort(s, "h2o_socket_import: assert(info->fd != -1)")
    ELSE LET s1 == [do_import(s) EXCEPT !.info.fd = FALSE]
             s2 == [s1 EXCEPT !.sock.has_ssl = s1.info.has_ssl]
             s3 == IF s2.sock.has_ssl THEN setup_bio(s2) ELSE s2
         IN  [s3 EXCEPT !.sock.input = s3.info.input,
                        !.g.op = [ name |-> "import", ret |-> 0, err |-> NULL, pre |-> s.g.op.pre, acc |-> NoAccept, fed |-> 0 ]]

\* ------------------------------------------------- the backend's read path
\* The loop found the descriptor readable: the bytes go to the encrypted
\* input of a TLS socket, else to the visible input; a TLS socket past its
\* handshake decodes; then the read callback is invoked.
read_on_ready(s, bytes, rerr, x) ==
    LET s1 == IF rerr # NULL THEN s
              ELSE IF s.sock.has_ssl
              THEN [s EXCEPT !.ssl.encrypted = @ \o bytes, !.net.sent = @ + Len(bytes)]
              ELSE [s EXCEPT !.sock.input = @ \o bytes, !.net.sent = @ + Len(bytes)]
        d == IF rerr = NULL /\ s1.sock.has_ssl /\ ~s1.ssl.hcb
             THEN decode_ssl_input(s1, x.dec)
             ELSE [ s |-> s1, err |-> rerr ]
        cb == s.sock.cb_read
    IN  CASE cb = "user" -> d.s
          [] cb = "proceed_handshake" -> proceed_handshake(d.s, d.err, x.hs, x.dec)
          [] cb = "shutdown_ssl" -> shutdown_ssl(d.s, d.err, x.sd)
          [] OTHER -> Abort(d.s, "read_on_ready: null callback")

\* --------------------------------------------------------------- actions
Running == aborted = ""
Live == Running /\ ~sock.disposed
\* The application holds the socket and has not begun to close it.
AppOwns == Live /\ g.s.cCalls = 0
\* The socket is past its handshake, or is not a TLS socket.
AppMode == sock.has_ssl => ~ssl.hcb

NoHs == [ ret |-> -1, want_read |-> TRUE, leave |-> 0, nout |-> 0, getcb |-> FALSE,
          verify_ok |-> TRUE ]
NoSd == [ ret |-> -1, nout |-> 0, want_read |-> FALSE ]

\* The engine outcomes a call of proceed_handshake(s, err) can meet: those
\* of SSL_accept / SSL_connect and, when the handshake completes with
\* bytes left in the encrypted input, those of the decode that follows.
\* The engine finishes a handshake, or fails the verification of the peer,
\* only in a call in which it has read bytes of the peer.
ProceedOutcomes(is_server, getter, recording, enc, err) ==
    IF err # NULL
    THEN [ hs : {NoHs}, dec : DecOutcomes(enc), sd : {NoSd} ]
    ELSE { x \in [ hs : HsOutcomes(is_server, getter, recording),
                   dec : DecOutcomes(enc), sd : {NoSd} ] :
             /\ (x.hs.leave = 1) => enc # <<>>
             /\ (x.hs.ret = 1 \/ ~x.hs.verify_ok) => Len(enc) > x.hs.leave
             /\ (x.dec # DecOk) => (x.hs.leave = 1 /\ x.dec.k = 0) }

\* The engine outcomes the callback cb, invoked with err on state s, can meet.
CallbackOutcomes(s, cb, err) ==
    CASE cb = "proceed_handshake" ->
           ProceedOutcomes(s.ssl.server, s.ssl.getter, s.ssl.astate = "RECORD",
                           s.ssl.encrypted, err)
      [] cb = "on_handshake_complete" ->
           [ hs : {NoHs}, dec : DecOutcomes(s.ssl.encrypted), sd : {NoSd} ]
      [] cb = "shutdown_ssl" ->
           [ hs : {NoHs}, dec : {DecOk}, sd : IF err # NULL THEN {NoSd} ELSE SdOutcomes(s) ]
      [] OTHER ->
           [ hs : {NoHs}, dec : {DecOk}, sd : {NoSd} ]

\* The record of the last call lasts one step.
Settle(t) == [t EXCEPT !.g.op = IF t.g.op = Cur.g.op THEN NoOp ELSE @]

Done(t) == Commit(Settle(t))

SslHandshake ==
    /\ AppOwns /\ ~sock.has_ssl /\ g.h.hCalls = 0
    /\ sock.cb_write = NULL
    /\ \E is_server \in BOOLEAN, getter \in BOOLEAN,
          cert \in {"none", "match", "mismatch", "malformed"} :
         /\ getter => is_server
         /\ (cert # "none") => ~is_server
         /\ \E x \in ProceedOutcomes(is_server, getter, getter, sock.input, NULL) :
              /\ (is_server /\ sock.input = <<>>) => x.hs = NoHs
              /\ Done(h2o_socket_ssl_handshake(Cur, is_server, getter, cert, x.hs, x.dec))

ResumeServerHandshake ==
    /\ AppOwns /\ sock.has_ssl /\ net.async_pending
    /\ \E has_data \in BOOLEAN,
          x \in ProceedOutcomes(ssl.server, ssl.getter, FALSE, ssl.encrypted, NULL) :
         Done(h2o_socket_ssl_resume_server_handshake(Cur, has_data, TRUE, x.hs, x.dec,
                                                     FALSE, NoSd))

ReadStart ==
    /\ AppOwns /\ AppMode /\ sock.cb_read = NULL
    /\ Done(h2o_socket_read_start(Cur, "user"))

ReadStop ==
    /\ AppOwns /\ AppMode /\ sock.cb_read = "user"
    /\ Done(h2o_socket_read_stop(Cur))

\* An application write, of which no record of the call is kept.
Write ==
    /\ AppOwns /\ AppMode /\ ~h2o_socket_is_writing(Cur)
    /\ g.s.wIssued < MaxWrites
    /\ \E bufs \in WriteBufs, fail_at \in 0..2 :
         Commit([h2o_socket_write(Cur, bufs, fail_at) EXCEPT !.g.op = NoOp])

Close ==
    /\ AppOwns
    /\ \E sd \in SdOutcomes(Cur) : Done(h2o_socket_close(Cur, sd))

Prepare ==
    /\ AppOwns /\ (sock.has_ssl => ssl.eng = "open")
    /\ \E cipher \in Ciphers, tcpi \in TcpInfos :
         Commit(h2o_socket_prepare_for_latency_optimized_write(Cur, cipher, tcpi))

Export ==
    /\ AppOwns /\ AppMode /\ ~info.fd /\ sock.id < MaxImports
    /\ \E export_ok \in BOOLEAN : Commit(h2o_socket_export(Cur, export_ok))

Import ==
    /\ Running /\ info.fd
    /\ Commit(h2o_socket_import(Cur))

\* The backend reports the write in flight as done: with an error when the
\* kernel refused bytes or the write was flagged, else with none.
WriteComplete ==
    /\ Live /\ wr.inflight
    /\ \E ok \in BOOLEAN :
         /\ (wr.bytes = 0) => ok
         /\ LET err == IF wr.err_flag \/ ~ok THEN "I/O error" ELSE NULL
                s1 == [Cur EXCEPT !.wr = NoWrite]
            IN  \E x \in CallbackOutcomes(s1, sock.cb_write, err) :
                    Done(on_write_complete(s1, err, ok /\ ~wr.short, x))

ReadReady ==
    /\ Live /\ sock.cb_read # NULL
    /\ \E n \in 0..(MaxRecv - net.sent) :
         \E rerr \in (IF n = 0 THEN {"socket closed by peer", "I/O error"} ELSE {NULL}) :
            LET bytes == [i \in 1..n |-> net.sent + i]
                enc == ssl.encrypted \o bytes
                decodes == rerr = NULL /\ sock.has_ssl /\ ~ssl.hcb
                s1 == [Cur EXCEPT !.ssl.encrypted = enc]
            IN  \E x \in (IF decodes
                          THEN [ hs : {NoHs}, dec : DecOutcomes(enc),
                                 sd : IF sock.cb_read = "shutdown_ssl"
                                      THEN SdOutcomes(Cur) ELSE {NoSd} ]
                          ELSE CallbackOutcomes(s1, sock.cb_read, rerr)) :
                    Done(read_on_ready(Cur, bytes, rerr, x))

\* The life of one socket object: handshake, reads, writes, close.
Next ==
    \/ SslHandshake
    \/ ResumeServerHandshake
    \/ ReadStart
    \/ ReadStop
    \/ Write
    \/ Close
    \/ WriteComplete
    \/ ReadReady

Spec == Init /\ [][Next]_vars

\* The backend completes every write it was handed.
FairSpec == Spec /\ WF_vars(WriteComplete)

\* The latency optimizer: prepare calls between the writes of a socket.
LatencyNext ==
    \/ SslHandshake
    \/ ReadReady
    \/ Write
    \/ WriteComplete
    \/ Prepare

LatencySpec == Init /\ [][LatencyNext]_vars

\* The hand-off of a connection: export, then import as a new socket object.
MigrateNext ==
    \/ SslHandshake
    \/ ReadStart
    \/ ReadReady
    \/ Write
    \/ WriteComplete
    \/ Export
    \/ Import

MigrateSpec == Init /\ [][MigrateNext]_vars

\* The answers of TCP_INFO around the decision of line 459: products of
\* MSS and window of 65535 (255 x 257), of 65536 (256 x 256), ordinary ones,
\* and one of 2^32 (32768 x 131072).  The suggested size of line 467 is kept
\* below 2^31.
MssValues == { 255, 256, 1460, 32768 }
CwndValues == { 10, 45, 256, 257, 131072 }
UnackedValues == { 0, 2, 131072 }

PacketsSendable(tcpi) == IF tcpi.cwnd > tcpi.unacked THEN tcpi.cwnd - tcpi.unacked ELSE 0

TcpInfoValues ==
    { i \in [ fetch_ok : BOOLEAN, rtt_ok : {TRUE}, lowat_ok : {TRUE},
              mss : MssValues, cwnd : CwndValues, unacked : UnackedValues ] :
        PacketsSendable(i) + 1 <= 2147483647 \div i.mss }

\* The application asks for the write size; the call and what the socket
\* held before it are kept.
PrepareAt ==
    /\ AppOwns /\ ~sock.has_ssl
    /\ \E tcpi \in TcpInfoValues :
         /\ CommitSock(h2o_socket_prepare_for_latency_optimized_write(Cur, "none", tcpi))
         /\ call' = [ fn |-> "prepare", tcpi |-> tcpi, cipher |-> "none",
                      before |-> [ mode |-> sock.lat.mode, mss |-> sock.lat.mss ] ]

\* The same question asked of a TLS socket whose engine is open, with the
\* cipher the handshake negotiated.
PrepareTls ==
    /\ AppOwns /\ sock.has_ssl /\ ssl.eng = "open"
    /\ \E cipher \in Ciphers, tcpi \in TcpInfos :
         /\ CommitSock(h2o_socket_prepare_for_latency_optimized_write(Cur, cipher, tcpi))
         /\ call' = [ fn |-> "prepare", tcpi |-> tcpi, cipher |-> cipher,
                      before |-> [ mode |-> sock.lat.mode, mss |-> sock.lat.mss ] ]

\* A socket that goes through its handshake and is then asked for the write
\* size.
CipherNext ==
    \/ SslHandshake
    \/ ReadReady
    \/ WriteComplete
    \/ PrepareTls

CipherSpec == Init /\ [][CipherNext]_vars

\* The buffers of the writes whose slicing is looked at: none, one buffer
\* longer than an MSS, and three buffers of which the first is longer than
\* the largest record and the second is empty.
SliceBufs == { <<>>, <<1461>>, <<16385, 0, 1401>> }

\* An application write; the buffers and the latency state it found are
\* kept.
WriteAt ==
    /\ AppOwns /\ AppMode /\ ~h2o_socket_is_writing(Cur)
    /\ g.s.wIssued < MaxWrites
    /\ \E bufs \in SliceBufs, fail_at \in 0..2 :
         /\ CommitSock(Settle(h2o_socket_write(Cur, bufs, fail_at)))
         /\ call' = [ fn |-> "write", bufs |-> bufs, fail_at |-> fail_at,
                      before |-> sock.lat ]

\* A socket whose latency mode is decided before or after its handshake and
\* that is then written to.
SliceNext ==
    \/ SslHandshake
    \/ ReadReady
    \/ Prepare
    \/ WriteAt
    \/ WriteComplete

SliceSpec == Init /\ [][SliceNext]_vars

\* A socket that is written to and closed.
ShortNext ==
    \/ SslHandshake
    \/ ReadReady
    \/ WriteAt
    \/ WriteComplete
    \/ Close

ShortSpec == Init /\ [][ShortNext]_vars

\* A socket without TLS whose application alternates prepare and write.
DecisionNext ==
    \/ PrepareAt
    \/ Write
    \/ WriteComplete

DecisionSpec == Init /\ [][DecisionNext]_vars

\* A server that starts its handshake on a socket whose input already
\* holds the first flight of the client, of a size around the limit of
\* line 758.  The bytes are numbered after those the model will deliver.
RecordSizes == { AsyncRecordLimit - 1, AsyncRecordLimit, AsyncRecordLimit + 1 }

RecordInit ==
    /\ \E n \in RecordSizes :
          sock = [NewSock(0, TRUE) EXCEPT !.input = [i \in 1..n |-> MaxRecv + i]]
    /\ ssl = NoSsl
    /\ wr = NoWrite
    /\ info = NoInfo
    /\ net = [ sent |-> 0, async_pending |-> FALSE, get_async |-> 0 ]
    /\ g = [ s |-> NewSockGhost, h |-> NewHsGhost, op |-> NoOp ]
    /\ aborted = ""
    /\ call = NoCall

RecordNext ==
    \/ SslHandshake
    \/ ResumeServerHandshake
    \/ WriteComplete
    \/ ReadReady

RecordSpec == RecordInit /\ [][RecordNext]_vars

\* ------------------------------------------------------ ALPN, lines 929-956
\* The scan of the client's list for one server protocol, lines 936-947: in
\* is the client's list as bytes (length prefix, name, length prefix, ...),
\* pos the index of the next length prefix.
RECURSIVE ScanClient(_, _, _)
ScanClient(in, pos, proto) ==
    IF pos > Len(in) THEN "end"
    ELSE LET cand_len == in[pos]
         IN  IF Len(in) - pos < cand_len THEN "broken"
             ELSE IF cand_len = Len(proto) /\ SubSeq(in, pos + 1, pos + cand_len) = proto
             THEN "found"
             ELSE ScanClient(in, pos + 1 + cand_len, proto)

\* The loop over the server's protocols from index i on, lines 934-955.
RECURSIVE SelectFrom(_, _, _)
SelectFrom(protocols, i, in) ==
    IF i > Len(protocols) THEN [ ret |-> "NOACK", out |-> <<>> ]
    ELSE LET r == ScanClient(in, 1, protocols[i])
         IN  CASE r = "found" -> [ ret |-> "OK", out |-> protocols[i] ]
               [] r = "broken" -> [ ret |-> "NOACK", out |-> <<>> ]
               [] OTHER -> SelectFrom(protocols, i + 1, in)

\* The names in a well-formed client list, in order.
RECURSIVE ClientEntries(_)
ClientEntries(in) ==
    IF in = <<>> THEN <<>>
    ELSE <<SubSeq(in, 2, 1 + in[1])>> \o ClientEntries(SubSeq(in, 2 + in[1], Len(in)))

\* A client list is well-formed when no length prefix exceeds the bytes
\* that remain after it.
RECURSIVE WellFormed(_)
WellFormed(in) ==
    \/ in = <<>>
    \/ in[1] <= Len(in) - 1 /\ WellFormed(SubSeq(in, 2 + in[1], Len(in)))

\* on_alpn_select that walks the client's list and takes its first name
\* the server knows (the client's preference instead of the server's).
on_alpn_select_client_order(protocols, in) ==
    LET names == ClientEntries(in)
        hits == { j \in 1..Len(names) : \E i \in 1..Len(protocols) : protocols[i] = names[j] }
    IN  IF ~WellFormed(in) \/ hits = {}
        THEN [ ret |-> "NOACK", out |-> <<>> ]
        ELSE [ ret |-> "OK", out |-> names[CHOOSE j \in hits : \A k \in hits : j <= k] ]

on_alpn_select(protocols, in) == SelectFrom(protocols, 1, in)

\* The inputs: the bytes a client list is made of, the names a server can
\* be configured with, the server lists (no name twice) and the client
\* lists (any bytes, well-formed or not).
AlpnBytes == 0..2
AlpnNames == { <<1>>, <<2>>, <<1, 2>>, <<2, 1>> }

SeqsUpTo(S, n) == UNION { [1..m -> S] : m \in 0..n }

ServerLists ==
    { p \in SeqsUpTo(AlpnNames, MaxServerProtocols) :
        \A i, j \in 1..Len(p) : i # j => p[i] # p[j] }

ClientLists == SeqsUpTo(AlpnBytes, MaxClientBytes)

AlpnInit ==
    /\ SockInit
    /\ call \in [ fn : {"alpn"}, protocols : ServerLists, in : ClientLists,
                   done : {FALSE}, r : {[ ret |-> "NOACK", out |-> <<>> ]} ]

\* The engine calls the selection callback with the client's list.
AlpnSelect ==
    /\ call.fn = "alpn" /\ ~call.done
    /\ call' = [call EXCEPT !.done = TRUE, !.r = on_alpn_select(call.protocols, call.in)]
    /\ UNCHANGED <<sock, ssl, wr, info, net, g, aborted>>

AlpnNext == AlpnSelect

AlpnSpec == AlpnInit /\ [][AlpnNext]_vars

\* ------------------------------------------- address compare, lines 629-660
\* sa_family of the three supported families, as <sys/socket.h> numbers them.
AF == [ unix |-> 1, inet |-> 2, inet6 |-> 10 ]

\* CMP(a, b) of lines 631-633: 0 stands for "fall through to the next line".
CMP(a, b) == IF a # b THEN (IF a < b THEN -1 ELSE 1) ELSE 0

\* strcmp: the difference of the first pair of bytes that differ, the scan
\* ending at the first NUL of either array.
RECURSIVE strcmp(_, _, _)
strcmp(a, b, i) ==
    IF a[i] # b[i] THEN a[i] - b[i]
    ELSE IF a[i] = 0 THEN 0
    ELSE strcmp(a, b, i + 1)

\* memcmp over n bytes.
RECURSIVE memcmp(_, _, _, _)
memcmp(a, b, i, n) ==
    IF i > n THEN 0
    ELSE IF a[i] # b[i] THEN a[i] - b[i]
    ELSE memcmp(a, b, i + 1, n)

\* The first non-zero value of a sequence of CMP results, else 0.
RECURSIVE FirstNonZero(_)
FirstNonZero(rs) ==
    IF rs = <<>> THEN 0
    ELSE IF Head(rs) # 0 THEN Head(rs)
    ELSE FirstNonZero(Tail(rs))

\* The integer fields are held as the values ntohl / ntohs yield (both are
\* bijections on the field's width); sin6_flowinfo and sin6_scope_id are
\* compared as stored.
h2o_socket_compare_address(x, y) ==
    IF x.sa_family # y.sa_family THEN CMP(x.sa_family, y.sa_family)
    ELSE IF x.sa_family = AF.unix THEN strcmp(x.sun_path, y.sun_path, 1)
    ELSE IF x.sa_family = AF.inet
    THEN FirstNonZero(<<CMP(x.sin_addr, y.sin_addr), CMP(x.sin_port, y.sin_port)>>)
    ELSE FirstNonZero(<<memcmp(x.sin6_addr, y.sin6_addr, 1, Len(x.sin6_addr)),
                        CMP(x.sin6_port, y.sin6_port),
                        CMP(x.sin6_flowinfo, y.sin6_flowinfo),
                        CMP(x.sin6_scope_id, y.sin6_scope_id)>>)

\* The addresses: sun_path is an array of PathBytes bytes followed by a
\* terminating NUL (a pathname, or an abstract-namespace name when the first
\* byte is NUL); s6_addr is an array of bytes; every field ranges over
\* 0..MaxField.
Field == 0..MaxField
PathBytes == 2

Addresses ==
    [ sa_family : {AF.unix},
      sun_path : { p \o <<0>> : p \in [1..PathBytes -> Field] } ]
    \cup [ sa_family : {AF.inet}, sin_addr : Field, sin_port : Field ]
    \cup [ sa_family : {AF.inet6}, sin6_addr : [1..1 -> Field], sin6_port : Field,
           sin6_flowinfo : Field, sin6_scope_id : Field ]

CompareInit ==
    /\ SockInit
    /\ call \in [ fn : {"compare"}, x : Addresses, y : Addresses, done : {FALSE},
                   r : {0}, back : {0} ]

\* One comparison of x with y and one of y with x.
CompareAddress ==
    /\ call.fn = "compare" /\ ~call.done
    /\ call' = [call EXCEPT !.done = TRUE,
                            !.r = h2o_socket_compare_address(call.x, call.y),
                            !.back = h2o_socket_compare_address(call.y, call.x)]
    /\ UNCHANGED <<sock, ssl, wr, info, net, g, aborted>>

CompareNext == CompareAddress

CompareSpec == CompareInit /\ [][CompareNext]_vars

\* ---------------------------------------------------------------- properties
\* Write callbacks invoked so far on the socket object.
WriteCbs == g.s.wOk + g.s.wFail

\* C1 as stated: every write is followed by exactly one invocation of its
\* callback, whose error is null iff all bytes went to the kernel.  Once the
\* socket is disposed no callback can follow, so by then every write issued
\* must have had its callback.
C1_ExactlyOneCallback ==
    /\ sock.disposed => WriteCbs = g.s.wIssued
    /\ ~g.s.wWrong

\* C1, amended: every write issued is accounted for exactly once: its
\* callback was invoked once, or it is the write in flight, or its callback
\* slot was dropped by a close (never otherwise); no write has two
\* invocations; and the error of an invocation is null iff every byte of the
\* write was handed to the kernel.
C1_AtMostOneCallback ==
    /\ g.s.wIssued = WriteCbs + g.s.wSupp + (IF sock.cb_write = "user" THEN 1 ELSE 0)
    /\ g.s.wSupp > 0 => g.s.cCalls > 0
    /\ (Running /\ g.s.cCalls = 0 /\ sock.cb_write = "user") => wr.inflight
    /\ ~g.s.wWrong

\* A TLS socket has had one write callback with a null error and one with
\* an error.
C1_Witness == ssl.eng = "open" /\ g.s.wOk = 1 /\ g.s.wFail = 1

\* C2 as stated: the close callback fires only after the callback of every
\* write issued has been invoked.
C2_CloseAfterWriteCallback == g.s.cCb > 0 => WriteCbs = g.s.wIssued

\* C2, amended: a close drops the application's write in flight at once (its
\* callback is never invoked); when the close callback fires nothing is
\* outstanding, every write issued had its callback or was dropped, and no
\* write callback is invoked after the close callback.
C2_CloseDropsWrite ==
    /\ g.s.cCalls > 0 => sock.cb_write # "user"
    /\ g.s.cCb > 0 => /\ sock.cb_write = NULL
                      /\ ~wr.inflight
                      /\ g.s.wIssued = WriteCbs + g.s.wSupp
    /\ g.s.wSupp <= 1
    /\ ~g.s.wLate

\* A TLS socket was closed with an application write in flight; the close
\* callback has fired and the write's callback has not.
C2_Witness ==
    /\ g.h.hCb = 1 /\ g.h.hErr = NULL
    /\ g.s.cCb = 1 /\ g.s.wSupp = 1 /\ g.s.wOk = 1

C4_CloseCallbackOnce ==
    /\ [](/\ g.s.cCb <= 1
          /\ g.s.cCb = 1 => (sock.disposed /\ g.s.cCalls = 1))
    /\ (g.s.cCalls = 1) ~> (g.s.cCb = 1)

\* The close callback has fired after the shutdown machine was re-entered
\* from the completion of its flush.
C4_Witness == g.s.cCb = 1 /\ g.s.cFlushes >= 1 /\ g.h.hErr = NULL /\ g.h.hCb = 1

C6_ClientSuccessValidated ==
    (sock.has_ssl /\ ~ssl.server /\ g.h.hCb = 1 /\ g.h.hErr = NULL)
        => ssl.cert = "match"

\* C7: whenever the application may begin a write on a TLS socket (the
\* handshake callback has fired, no write is in flight, the socket is not
\* closed) the outbound staging is empty, and the assertion at the entry of
\* write never fails.
C7_StagingEmptyBeforeWrite ==
    /\ (AppOwns /\ sock.has_ssl /\ g.h.hCb = 1 /\ ~h2o_socket_is_writing(Cur))
           => ssl.out = <<>>
    /\ aborted # "h2o_socket_write: assert(output.bufs.size == 0)"

\* C8: a socket whose latency mode is DISABLED keeps that mode over every
\* write and every prepare call.
C8_DisabledIsAbsorbing ==
    [][sock.lat.mode = "DISABLED" => sock'.lat.mode = "DISABLED"]_vars

\* A TLS socket in the mode DISABLED on which a write was issued in that
\* mode and a prepare call was the last operation.
C8_Witness ==
    /\ sock.lat.mode = "DISABLED" /\ ssl.eng = "open"
    /\ g.s.wDis /\ g.op.name = "prepare"

\* C9: the socket an import returns has the visible input, the encrypted
\* input and the TLS engine the exported socket had when export was called
\* (no write was in flight then), and the engine's byte-IO is bound to the
\* new socket object.
C9_ExportImportIdentity ==
    g.op.name = "import" =>
        /\ ~g.op.pre.writing
        /\ ~sock.disposed
        /\ sock.input = g.op.pre.input
        /\ sock.has_ssl = g.op.pre.has_ssl
        /\ ssl = IF sock.has_ssl THEN [g.op.pre.ssl EXCEPT !.bio = sock.id]
                 ELSE g.op.pre.ssl
        /\ sock.has_ssl => ssl.bio # g.op.pre.ssl.bio

\* A TLS socket was imported with decrypted bytes in its input and an
\* undecoded record in its encrypted input.
C9_Witness ==
    /\ g.op.name = "import" /\ sock.has_ssl /\ ssl.eng = "open"
    /\ sock.input # <<>> /\ ssl.encrypted # <<>>

\* C10 as stated: an export called with a write in flight returns -1,
\* moves nothing into info and leaves the socket open.
C10_ExportWhileWritingFails ==
    (g.op.name = "export" /\ g.op.pre.writing) =>
        /\ aborted = "" /\ g.op.ret = -1
        /\ ~info.fd /\ ~sock.disposed

\* C10, amended: a write in flight at export is a violated precondition,
\* the assertion of line 345 stops the process; export returns -1 only when
\* the backend cannot detach the descriptor, and then nothing has moved into
\* info and the socket is neither changed nor closed; otherwise it returns 0
\* with the adapter and the input in info and the socket closed.
C10_ExportFailure ==
    g.op.name = "export" =>
        /\ g.op.pre.writing <=> aborted = "h2o_socket_export: assert(!h2o_socket_is_writing(sock))"
        /\ g.op.ret \in {0, -1}
        /\ (g.op.ret = -1 \/ g.op.pre.writing) =>
              /\ ~info.fd /\ ~sock.disposed /\ g.s.cCalls = 0
              /\ sock.input = g.op.pre.input
              /\ sock.has_ssl = g.op.pre.has_ssl
              /\ ssl = g.op.pre.ssl
        /\ (g.op.ret = 0 /\ ~g.op.pre.writing) =>
              /\ info.fd /\ sock.disposed
              /\ info.input = g.op.pre.input
              /\ info.has_ssl = g.op.pre.has_ssl

\* An export of a TLS socket with buffered input has returned -1.
C10_Witness ==
    /\ g.op.name = "export" /\ g.op.ret = -1
    /\ sock.has_ssl /\ sock.input # <<>>

\* C11: a write the engine attempts through write_bio inside a TLS read of
\* the decode loop fails, appends nothing to the outbound staging, and the
\* decode returns the renegotiation error; the did_write_in_read marker is
\* null in every state outside such a read.
C11_NoWriteInRead ==
    /\ ssl.did_write_in_read = NULL
    /\ g.op.name = "decode" =>
          /\ g.op.err = "ssl renegotiation not supported"
          /\ ssl.out = g.op.pre.ssl.out

\* The engine tried to write inside the read of the second record, after
\* the first was decoded, while a write of the application was in flight.
C11_Witness ==
    /\ g.op.name = "decode" /\ g.op.ret = 1
    /\ sock.input # <<>> /\ ssl.out # <<>> /\ wr.inflight

Occurs(name, in) == \E j \in 1..Len(ClientEntries(in)) : ClientEntries(in)[j] = name

\* C12: for a well-formed client list the selection returns OK with the
\* server protocol of smallest index that occurs in the client list, and
\* no-acknowledgement exactly when none occurs.
C12_AlpnEarliestServerMatch ==
    (call.fn = "alpn" /\ call.done /\ WellFormed(call.in)) =>
        LET hits == { i \in 1..Len(call.protocols) : Occurs(call.protocols[i], call.in) }
        IN  IF hits = {} THEN call.r.ret = "NOACK"
            ELSE /\ call.r.ret = "OK"
                 /\ \E i \in hits : /\ \A k \in hits : i <= k
                                     /\ call.r.out = call.protocols[i]

\* The client prefers the server's second protocol, the server's first is
\* selected.
C12_Witness ==
    /\ call.fn = "alpn" /\ call.done
    /\ call.in = <<1, 2, 1, 1>> /\ call.protocols = << <<1>>, <<2>> >>
    /\ call.r = [ ret |-> "OK", out |-> <<1>> ]

\* C13: for a malformed client list the selection returns
\* no-acknowledgement, whatever precedes the malformed entry and whatever
\* the server list is.
C13_MalformedNoAck ==
    (call.fn = "alpn" /\ call.done /\ ~WellFormed(call.in)) => call.r.ret = "NOACK"

Sign(n) == IF n < 0 THEN -1 ELSE IF n > 0 THEN 1 ELSE 0

\* The order laws of the comparison at the pair compared: antisymmetric
\* sign, zero on equal arguments, transitive through every third address.
CompareOrderLaws ==
    (call.fn = "compare" /\ call.done) =>
        /\ Sign(call.r) = -Sign(call.back)
        /\ call.x = call.y => call.r = 0
        /\ \A z \in Addresses :
              (call.r <= 0 /\ h2o_socket_compare_address(call.y, z) <= 0)
                  => h2o_socket_compare_address(call.x, z) <= 0

\* Zero exactly between addresses of one family with equal fields.
CompareZeroIffEqual ==
    (call.fn = "compare" /\ call.done) => (call.r = 0 <=> call.x = call.y)

\* C14: the comparison is a total order on unix, IPv4 and IPv6 addresses
\* (antisymmetric sign, zero on equal arguments, transitive), and it is
\* zero if and only if the two addresses have the same family and equal
\* family-specific fields.
C14_CompareTotalOrder == CompareOrderLaws /\ CompareZeroIffEqual

\* C15: a proceed call that finds the resumption state RECORD takes a copy
\* of the encrypted input and calls the engine in state RECORD when the
\* input holds at most 1024 bytes; with 1025 bytes or more it takes no copy
\* and calls the engine in state COMPLETE, and from then on the handshake
\* dispatches no asynchronous lookup.
C15_RecordLimit ==
    /\ g.op.name = "proceed" =>
          LET entry == g.op.pre.ssl.encrypted
          IN  /\ g.op.pre.ssl.astate = "RECORD"
              /\ Len(entry) <= 1024 =>
                    /\ g.op.acc.taken /\ g.op.acc.first_input = entry
                    /\ g.op.acc.astate = "RECORD"
                    /\ ~g.h.gaveUp
              /\ Len(entry) >= 1025 =>
                    /\ ~g.op.acc.taken
                    /\ g.op.acc.astate = "COMPLETE"
                    /\ g.h.gaveUp
    /\ g.h.gaveUp =>
          /\ net.get_async = 0 /\ ~net.async_pending
          /\ sock.has_ssl => ssl.astate = "COMPLETE"

\* A first flight of 1025 bytes: the engine asked for the session and no
\* lookup was dispatched.
C15_Witness ==
    /\ g.op.name = "proceed" /\ Len(g.op.pre.ssl.encrypted) = 1025
    /\ g.h.gaveUp /\ ssl.eng = "open"

\* C16: on an enabled socket (mode TBD that passes the setup, or
\* NEEDS_UPDATE with a successful refetch) prepare sets the mode
\* USE_LARGE_TLS_RECORDS and returns SIZE_MAX if and only if MSS x cwnd, as
\* a mathematical product, is at least 65536; otherwise it sets
\* USE_TINY_TLS_RECORDS and returns
\* (max(0, cwnd - unacked) + 1) x (MSS - tls_overhead).
C16_LargeIffProductAtLeast64K ==
    (/\ call.fn = "prepare" /\ g.op.name = "prepare"
     /\ call.before.mode \in {"TBD", "NEEDS_UPDATE"}
     /\ call.tcpi.fetch_ok /\ call.tcpi.rtt_ok /\ call.tcpi.lowat_ok
     /\ ~sock.has_ssl) =>
        LET mss == IF call.before.mode = "TBD" THEN call.tcpi.mss ELSE call.before.mss
            cwnd == call.tcpi.cwnd
            unacked == call.tcpi.unacked
            sendable == IF cwnd > unacked THEN cwnd - unacked ELSE 0
            \* mss * cwnd >= 65536 over the integers
            product_ge_64k == cwnd >= (65536 + mss - 1) \div mss
        IN  IF product_ge_64k
            THEN sock.lat.mode = "USE_LARGE_TLS_RECORDS" /\ g.op.ret = SIZE_MAX
            ELSE /\ sock.lat.mode = "USE_TINY_TLS_RECORDS"
                 /\ g.op.ret = (sendable + 1) * (mss - sock.lat.tls_overhead)

\* C17: the first prepare call on a TLS socket whose RTT is at least the
\* minimum and on which TCP_NOTSENT_LOWAT can be set records a TLS overhead
\* of 25 for an AES-GCM suite and of 21 for a ChaCha20-Poly1305 suite and
\* leaves the optimizer enabled (mode USE_TINY or USE_LARGE); only other
\* ciphers disable it.  With AES-GCM, cwnd = 10, unacked = 2 and MSS = 1460
\* it returns 12915 with mode USE_TINY.
C17_CipherOverhead ==
    (/\ call.fn = "prepare" /\ g.op.name = "prepare"
     /\ sock.has_ssl /\ call.before.mode = "TBD"
     /\ call.tcpi.fetch_ok /\ call.tcpi.rtt_ok /\ call.tcpi.lowat_ok) =>
        LET enabled == sock.lat.mode \in {"USE_TINY_TLS_RECORDS", "USE_LARGE_TLS_RECORDS"}
        IN  /\ call.cipher = "aes-gcm" => (enabled /\ sock.lat.tls_overhead = 25)
            /\ call.cipher = "chacha20-poly1305" => (enabled /\ sock.lat.tls_overhead = 21)
            /\ call.cipher = "other" => sock.lat.mode = "DISABLED"
            /\ (/\ call.cipher = "aes-gcm" /\ call.tcpi.cwnd = 10
                /\ call.tcpi.unacked = 2 /\ call.tcpi.mss = 1460) =>
                   (g.op.ret = 12915 /\ sock.lat.mode = "USE_TINY_TLS_RECORDS")

\* lens splits into consecutive groups, one per buffer, the group of a
\* buffer adding up to its length.
RECURSIVE Covers(_, _)
Covers(lens, bufs) ==
    IF bufs = <<>> THEN lens = <<>>
    ELSE \E k \in 0..Len(lens) :
            /\ Sum(Take(lens, k)) = Head(bufs)
            /\ Covers(Drop(lens, k), Tail(bufs))

\* C18: a TLS write takes the record size MSS in the modes USE_TINY and
\* NEEDS_UPDATE, 16384 minus the TLS overhead in USE_LARGE and 1400 in every
\* other mode; the first three modes become NEEDS_UPDATE, TBD and DISABLED
\* stay; when every SSL_write succeeds each buffer is fed to the engine in
\* consecutive non-empty slices of at most that size that add up to the
\* buffer, in order, and the staging is flushed once after the last slice.
C18_RecordSlicing ==
    (g.op.name = "write" /\ call.fn = "write") =>
        LET b == call.before
            rs == CASE b.mode \in {"USE_TINY_TLS_RECORDS", "NEEDS_UPDATE"} -> b.mss
                    [] b.mode = "USE_LARGE_TLS_RECORDS" -> 16384 - b.tls_overhead
                    [] OTHER -> 1400
            lens == [i \in 1..Len(ssl.out) |-> ssl.out[i].len]
        IN  /\ sock.has_ssl
            /\ g.op.ret = rs
            /\ sock.lat.mode = IF b.mode \in {"USE_TINY_TLS_RECORDS", "NEEDS_UPDATE",
                                               "USE_LARGE_TLS_RECORDS"}
                                THEN "NEEDS_UPDATE" ELSE b.mode
            /\ ~wr.short =>
                  /\ \A i \in 1..Len(lens) :
                        ssl.out[i].kind = "app" /\ lens[i] >= 1 /\ lens[i] <= rs
                  /\ Covers(lens, call.bufs)
                  /\ wr.inflight /\ wr.bytes = Sum(call.bufs)
                  /\ sock.cb_write = "user" /\ ~g.s.overlap

\* In mode USE_TINY with an MSS of 1460 the buffers of 16385, 0 and 1401
\* bytes went to the engine in 12 + 0 + 1 slices.
C18_Witness ==
    /\ g.op.name = "write" /\ call.fn = "write"
    /\ call.before.mode = "USE_TINY_TLS_RECORDS" /\ call.bufs = <<16385, 0, 1401>>
    /\ ~wr.short /\ Len(ssl.out) = 13 /\ sock.lat.mode = "NEEDS_UPDATE"

\* The application's write whose SSL_write came back short is with the
\* backend, not yet reported.
ShortPending == wr.short

\* C19 as stated: after a short SSL_write the user's write callback is
\* invoked exactly once, with a non-null error: the write stops being
\* pending only by that invocation.
C19_ShortWriteCallbackOnce ==
    [][(ShortPending /\ ~ShortPending') =>
           (g.s.wFail' = g.s.wFail + 1 /\ g.s.wOk' = g.s.wOk)]_vars

\* C19, amended: when an SSL_write of a TLS write returns short, nothing is
\* handed to the backend but an empty write, no further slice is fed to the
\* engine, the staging is empty and the user's callback is registered; the
\* callback is then invoked once with a non-null error when the backend
\* reports that write, or never if the socket is closed first.
C19_ShortWriteFails ==
    /\ [](ShortPending =>
             /\ sock.has_ssl /\ ssl.out = <<>>
             /\ wr.inflight /\ wr.bytes = 0 /\ wr.err_flag
             /\ sock.cb_write = "user")
    /\ []((g.op.name = "write" /\ call.fn = "write" /\ ShortPending) =>
             g.op.fed = (IF ssl.eng = "open" THEN call.fail_at ELSE 1))
    /\ [](~g.s.wWrong)
    /\ [][(ShortPending /\ ~ShortPending') =>
             \/ g.s.wFail' = g.s.wFail + 1 /\ g.s.wOk' = g.s.wOk /\ g.s.wSupp' = g.s.wSupp
             \/ /\ g.s.cCalls' = g.s.cCalls + 1 /\ g.s.wSupp' = g.s.wSupp + 1
                /\ g.s.wFail' = g.s.wFail /\ g.s.wOk' = g.s.wOk]_vars

\* The second SSL_write of a write came back short with one record staged,
\* and the callback of that write has been invoked with an error.
C19_Witness ==
    /\ call.fn = "write" /\ call.fail_at = 2 /\ call.bufs = <<1461>>
    /\ g.s.wIssued = 1 /\ g.s.wFail = 1 /\ ~wr.inflight /\ Live
    /\ ssl.eng = "open"

\* C20: when proceed finds the state REQUEST_SENT after the accept call, it
\* returns with a fresh engine on the same context, an empty outbound
\* staging, the encrypted input holding exactly the bytes it held on entry,
\* reads stopped, no write issued and the handshake callback not invoked.
C20_ReplayAfterRequestSent ==
    (g.op.name = "proceed" /\ ssl.astate = "REQUEST_SENT") =>
        /\ aborted = ""
        /\ ssl.gen = g.op.pre.ssl.gen + 1 /\ ssl.eng = "init"
        /\ ssl.ctx = g.op.pre.ssl.ctx /\ ssl.ctx # NULL
        /\ ssl.out = <<>>
        /\ ssl.encrypted = g.op.pre.ssl.encrypted
        /\ sock.cb_read = NULL
        /\ sock.cb_write = NULL /\ wr = NoWrite
        /\ ssl.hcb /\ g.h.hCb = 0

\* The lookup was dispatched from a proceed call that found two records in
\* the encrypted input.
C20_Witness ==
    /\ g.op.name = "proceed" /\ ssl.astate = "REQUEST_SENT"
    /\ Len(ssl.encrypted) = 2 /\ net.get_async = 1 /\ net.async_pending

\* ---------------------------------------------------------------- C21
\* What the session-get callback consulted in the last step did.
LastGet == g.op.acc.get

\* C21: over a server handshake the external lookup get_async is
\* dispatched at most once per socket.  The session-get callback dispatches
\* it only when it finds state RECORD, and then it moves to REQUEST_SENT and
\* returns no session; when it finds state COMPLETE it returns the cached
\* session with the copy flag set and dispatches nothing; and the state
\* never goes from COMPLETE or REQUEST_SENT back to RECORD.
C21_LookupDispatchedOnce ==
    /\ [](net.get_async <= 1)
    /\ [](LastGet.called =>
            /\ LastGet.at \in {"RECORD", "COMPLETE"}
            /\ (LastGet.at = "RECORD") =>
                    (LastGet.dispatched /\ ~LastGet.session /\ ssl.astate = "REQUEST_SENT")
            /\ (LastGet.at = "COMPLETE") =>
                    (~LastGet.dispatched /\ LastGet.copy))
    /\ [][ /\ (net.get_async' # net.get_async) =>
                  /\ net.get_async' = net.get_async + 1
                  /\ LastGet'.called /\ LastGet'.dispatched /\ LastGet'.at = "RECORD"
                  /\ ssl'.astate = "REQUEST_SENT"
           /\ (LastGet'.called /\ LastGet'.dispatched /\ g'.op # g.op) =>
                  net.get_async' = net.get_async + 1
           /\ (sock.has_ssl /\ sock'.has_ssl
                 /\ ssl.astate \in {"COMPLETE", "REQUEST_SENT"}) =>
                  ssl'.astate # "RECORD" ]_vars

\* The lookup was dispatched once, its answer was delivered, and the
\* callback consulted during the replay found state COMPLETE.
C21_Witness ==
    /\ net.get_async = 1
    /\ LastGet.called /\ LastGet.at = "COMPLETE" /\ ~LastGet.dispatched

\* ---------------------------------------------------------------- C22
\* The answer of the external lookup arrives: the application calls
\* h2o_socket_ssl_resume_server_handshake with session data that is empty,
\* parseable or not parseable, and its handshake callback, if the call
\* reaches it, closes the socket or leaves it alone.
CommitResume(t, has_data, d2i_ok, closes) ==
    /\ CommitSock(t)
    /\ call' = [ fn |-> "resume", has_data |-> has_data, d2i_ok |-> d2i_ok,
                 closes |-> closes, get |-> t.g.op.acc.get ]

ResumeAt ==
    /\ AppOwns /\ sock.has_ssl /\ net.async_pending
    /\ \E has_data \in BOOLEAN, d2i_ok \in BOOLEAN, closes \in BOOLEAN,
          x \in ProceedOutcomes(ssl.server, ssl.getter, FALSE, ssl.encrypted, NULL),
          sd \in SdOutcomes(Cur) :
         /\ (~has_data) => d2i_ok
         /\ CommitResume(Settle(h2o_socket_ssl_resume_server_handshake(
                                    Cur, has_data, d2i_ok, x.hs, x.dec, closes, sd)),
                         has_data, d2i_ok, closes)

ResumeNext ==
    \/ SslHandshake
    \/ ReadReady
    \/ WriteComplete
    \/ ResumeAt

ResumeSpec == Init /\ [][ResumeNext]_vars

\* C22: h2o_socket_ssl_resume_server_handshake(sock, session_data) returns,
\* the session-get callback consulted inside its proceed call finds state
\* COMPLETE and returns the session deserialized from session_data (none
\* when session_data is empty), and after the call the adapter holds no
\* cached session.
C22_ResumeServesCachedSession ==
    (call.fn = "resume") =>
        /\ aborted # "h2o_socket_ssl_resume_server_handshake: sock->ssl is NULL"
        /\ call.get.called =>
              /\ call.get.at = "COMPLETE" /\ call.get.copy /\ ~call.get.dispatched
              /\ call.get.session = (call.has_data /\ call.d2i_ok)
        /\ sock.has_ssl => ~ssl.session_data

\* ---------------------------------------------------------------- C23
\* A step that runs shutdown_ssl keeps what the call met: how it was
\* entered, the error it was given, whether a write was in flight, whether
\* the outbound staging was empty, and the outcome of SSL_shutdown.
CommitShutdown(t, entry, err, idle, clean, sd) ==
    /\ CommitSock(t)
    /\ call' = [ fn |-> "shutdown_ssl", entry |-> entry, err |-> err, idle |-> idle,
                 clean |-> clean, sd |-> sd ]

\* h2o_socket_close on a TLS socket.
CloseAt ==
    /\ AppOwns /\ sock.has_ssl
    /\ \E sd \in SdOutcomes(Cur) :
         CommitShutdown(Settle(h2o_socket_close(Cur, sd)), "close", NULL,
                        sock.cb_write = NULL, ssl.out = <<>>, sd)

\* The flush of the close_notify record completes and re-enters shutdown_ssl.
ShutdownFlushed ==
    /\ Live /\ wr.inflight /\ sock.cb_write = "shutdown_ssl"
    /\ \E ok \in BOOLEAN :
         LET err == IF wr.err_flag \/ ~ok THEN "I/O error" ELSE NULL
             s1 == [Cur EXCEPT !.wr = NoWrite]
         IN  \E x \in CallbackOutcomes(s1, sock.cb_write, err) :
                 CommitShutdown(Settle(on_write_complete(s1, err, ok, x)),
                                "write complete", err, TRUE, TRUE, x.sd)

ShutdownNext ==
    \/ SslHandshake
    \/ ReadReady
    \/ WriteComplete
    \/ CloseAt
    \/ ShutdownFlushed

ShutdownSpec == Init /\ [][ShutdownNext]_vars

HandshakeFails ==
    /\ sock'.has_ssl /\ ssl'.failure # "none"
    /\ (~sock.has_ssl \/ ssl.failure = "none")

\* C24: when the accept / connect call fails while the resumption state is
\* not REQUEST_SENT, that same call of proceed ends the handshake: the
\* handshake callback is invoked once with the certificate-verification
\* error if the verify result is not OK and with the generic
\* handshake-failure error otherwise, reads are stopped and no flush of the
\* staged bytes is started.
C24_FailureCompletesHandshake ==
    [][ HandshakeFails =>
          /\ ssl'.astate # "REQUEST_SENT"
          /\ g'.h.hCb = 1 /\ (sock.has_ssl => g.h.hCb = 0)
          /\ ~ssl'.hcb
          /\ g'.h.hErr = (IF ssl'.failure = "verify" THEN "certificate verify failed"
                          ELSE "ssl handshake failure")
          /\ sock'.cb_read = NULL
          /\ sock'.cb_write = NULL /\ ~wr'.inflight ]_vars

\* A handshake that failed on the verification of the peer's certificate
\* after the engine staged an alert: the callback has the error and the
\* alert is still staged, unflushed.
C24_Witness ==
    /\ sock.has_ssl /\ ssl.failure = "verify" /\ ssl.out # <<>>
    /\ g.h.hCb = 1 /\ g.h.hErr = "certificate verify failed"
    /\ ~wr.inflight

\* ---------------------------------------------------------------- C25
\* The application asks for the write size again after a TLS write left
\* the mode at NEEDS_UPDATE.
PrepareUpdate ==
    /\ AppOwns /\ sock.lat.mode = "NEEDS_UPDATE"
    /\ \E cipher \in Ciphers, tcpi \in TcpInfos :
         /\ CommitSock(h2o_socket_prepare_for_latency_optimized_write(Cur, cipher, tcpi))
         /\ call' = [ fn |-> "prepare", tcpi |-> tcpi, cipher |-> cipher,
                      before |-> sock.lat ]

UpdateNext ==
    \/ SslHandshake
    \/ ReadReady
    \/ Write
    \/ WriteComplete
    \/ Prepare
    \/ PrepareUpdate

UpdateSpec == Init /\ [][UpdateNext]_vars

\* C25: a prepare call made in mode NEEDS_UPDATE whose TCP_INFO fetch fails
\* returns SIZE_MAX and leaves the latency state as it was: the mode is
\* still NEEDS_UPDATE, and the MSS, the TLS overhead and the suggested
\* write size are unchanged.
C25_FailedUpdateKeepsState ==
    [][ ( /\ call' # call /\ call'.fn = "prepare"
          /\ call'.before.mode = "NEEDS_UPDATE" /\ ~call'.tcpi.fetch_ok )
        => /\ g'.op.name = "prepare" /\ g'.op.ret = SIZE_MAX
           /\ sock'.lat.mode = "NEEDS_UPDATE"
           /\ sock'.lat = sock.lat ]_vars

\* Such a call was made on a socket that had a suggestion saved.
C25_Witness ==
    /\ call.fn = "prepare" /\ call.before.mode = "NEEDS_UPDATE" /\ ~call.tcpi.fetch_ok
    /\ g.op.name = "prepare" /\ g.op.ret = SIZE_MAX
    /\ sock.lat = call.before
    /\ sock.lat.mss = 1460 /\ sock.lat.suggested_write_size # SIZE_MAX
    /\ sock.has_ssl

\* ---------------------------------------------------------------- C26
\* The socket waits for the answer of the external lookup.
AwaitsSession == sock.has_ssl /\ ssl.astate = "REQUEST_SENT"

\* C26: the session-get callback is never invoked in state REQUEST_SENT
\* (the assertion of its default branch does not fail).  While the socket
\* waits for h2o_socket_ssl_resume_server_handshake, reads are stopped and
\* no write is in flight whose completion would re-enter proceed, so no
\* step makes an accept call: the recorded ClientHello stays unread in the
\* encrypted input of the same, new engine.
C26_NoAcceptWhileRequestSent ==
    /\ [](aborted # "on_async_resumption_get: FIXME")
    /\ [](LastGet.called => LastGet.at # "REQUEST_SENT")
    /\ []((AwaitsSession /\ Running) =>
            /\ sock.cb_read = NULL
            /\ sock.cb_write \notin {"proceed_handshake", "on_handshake_complete"}
            /\ ssl.encrypted # <<>>
            /\ (AppOwns => (sock.cb_write = NULL /\ ~wr.inflight)))
    /\ [][ (AwaitsSession /\ AwaitsSession') =>
             /\ ssl'.encrypted = ssl.encrypted
             /\ ssl'.gen = ssl.gen /\ ssl'.eng = ssl.eng
             /\ g'.h = g.h ]_vars

\* The lookup is pending after the rewind: the ClientHello is back in the
\* encrypted input of the second engine and nothing listens on the socket.
C26_Witness ==
    /\ AwaitsSession /\ AppOwns /\ net.async_pending
    /\ ssl.gen = 2 /\ Len(ssl.encrypted) = MaxRecv
    /\ sock.cb_read = NULL

\* ---------------------------------------------------------------- C27
\* C27: a successful export of a TLS socket does not run the TLS shutdown
\* on the connection.  The adapter is detached before the shell is closed,
\* so the shell is disposed in that call as a plaintext socket: SSL_shutdown
\* is not called, nothing is staged or handed to the backend for writing,
\* and the adapter and the input buffer now in info are what they were.
C27_ExportSkipsTlsShutdown ==
    (g.op.name = "export" /\ g.op.ret = 0 /\ g.op.pre.has_ssl /\ aborted = "") =>
        /\ sock.disposed /\ ~sock.has_ssl
        /\ info.fd /\ info.has_ssl
        /\ ssl = g.op.pre.ssl
        /\ ~ssl.sent_shutdown /\ ssl.out = g.op.pre.ssl.out
        /\ info.input = g.op.pre.input
        /\ ~wr.inflight /\ g.s.cFlushes = 0
        /\ sock.cb_read = NULL /\ sock.cb_write = NULL

\* An open TLS socket with decrypted input and an undecoded record was
\* exported.
C27_Witness ==
    /\ g.op.name = "export" /\ g.op.ret = 0 /\ g.op.pre.has_ssl /\ aborted = ""
    /\ ssl.eng = "open" /\ info.input # <<>> /\ ssl.encrypted # <<>>
    /\ sock.disposed

====
